---- MODULE Spec2Model ----
(***************************************************************************)
(* Model of the random-consensus simulation: Block and Node (main.py and   *)
(* demo/simulate_consensus.py) and the round engine random_consensus_round *)
(* of both files.                                                          *)
(*                                                                         *)
(* A block hash is a natural number: FIXED_GENESIS_HASH is 0, and every    *)
(* uuid4() of Block.__init__ is the next value of the counter nextId, so   *)
(* that a generated hash differs from every hash generated before it.      *)
(***************************************************************************)
EXTENDS Integers, Sequences, FiniteSets, TLC

\* ---------------------------------------------------------------- bounds
NumNodes == 3        \* nodes created (main() creates 5)
MaxRounds == 3       \* rounds run from fresh nodes (main() runs 5)
MaxCalls == 3        \* operations on fresh nodes when direct calls are among them
MaxInitHeight == 3   \* greatest height of a chain the one-operation runs start from

\* ---------------------------------------------------------------- values
None == -1
FIXED_GENESIS_HASH == 0

VARIABLES
    chain,            \* chain[n]: Node.chain of node n, a sequence of blocks
    nextId,           \* the next hash uuid4() hands out
    pc,               \* "idle", or "done" once a round has run
    engine,           \* the random_consensus_round that ran: "main" or "demo"
    rnodes,           \* its `nodes` argument
    proposed_blocks,  \* its phase 1 result
    picks,            \* picks[i]: index random.choice took in valid_blocks at
                      \* the turn of rnodes[i]; 0 when valid_blocks was empty
    afterSelect,      \* chain at the end of its phase 2
    majority_height,  \* its locals of phase 3, None while unset
    majority_hash,
    reference_block,
    rollbacks,        \* rollbacks[n]: discard_last_block calls it made on n
    p2rollbacks,      \* the part of rollbacks[n] made in phase 2
    startChain,       \* chain when it was entered
    err,              \* the exception it raised, or "none"
    round_state,      \* the list the demo's round builds and returns
    lastOp,           \* the last direct Node method call
    rounds,           \* rounds run so far
    calls             \* direct Node method calls made so far

vars == <<chain, nextId, pc, engine, rnodes, proposed_blocks, picks,
          afterSelect, majority_height, majority_hash, reference_block,
          rollbacks, p2rollbacks, startChain, err, round_state, lastOp,
          rounds, calls>>

Nodes == 1..NumNodes

\* ---------------------------------------------------------------- Block
Block(height, parent_hash, hash) ==
    [height |-> height, parent_hash |-> parent_hash, hash |-> hash]

GENESIS_BLOCK_TEMPLATE == Block(0, None, FIXED_GENESIS_HASH)

\* ---------------------------------------------------------------- Node
NodeInit ==
    << Block(GENESIS_BLOCK_TEMPLATE.height, GENESIS_BLOCK_TEMPLATE.parent_hash,
             GENESIS_BLOCK_TEMPLATE.hash) >>

Tip(c) == c[Len(c)]

current_height(c) == Tip(c).height

propose_block(c, fresh) == Block(Tip(c).height + 1, Tip(c).hash, fresh)

add_block_noparent(c, block) ==
    IF block.height = current_height(c) + 1 THEN Append(c, block) ELSE c

add_block(c, block) ==
    IF block.height = current_height(c) + 1
    THEN IF block.parent_hash = Tip(c).hash
         THEN Append(c, block)
         ELSE c
    ELSE c

\* add_block has no return statement: the call evaluates to None
add_block_returns_bool(c, block) ==
    IF block.height = current_height(c) + 1 /\ block.parent_hash = Tip(c).hash
    THEN "True" ELSE "False"

add_block_return(c, block) == "None"

discard_last_block_unguarded(c) == SubSeq(c, 1, Len(c) - 1)

discard_last_block_two(c) ==
    IF Len(c) > 2 THEN SubSeq(c, 1, Len(c) - 2)
    ELSE IF Len(c) > 1 THEN SubSeq(c, 1, Len(c) - 1) ELSE c

discard_last_block(c) ==
    IF Len(c) > 1 THEN SubSeq(c, 1, Len(c) - 1) ELSE c

\* ---------------------------------------------------------------- dict
\* A Python dict keeps its keys in insertion order: keys is that order.
EmptyDict == [keys |-> << >>, val |-> << >>]

InSeq(x, s) == \E i \in 1..Len(s) : s[i] = x

\* d[k] = d.get(k, 0) + 1
DictIncr(d, k) ==
    IF InSeq(k, d.keys)
    THEN [d EXCEPT !.val = [i \in 1..Len(d.keys) |->
                              IF d.keys[i] = k THEN d.val[i] + 1 ELSE d.val[i]]]
    ELSE [keys |-> Append(d.keys, k), val |-> Append(d.val, 1)]

RECURSIVE CountFrom(_, _, _)
CountFrom(d, s, i) ==
    IF i > Len(s) THEN d ELSE CountFrom(DictIncr(d, s[i]), s, i + 1)

\* max(d, key=d.get): iterates the keys in insertion order and keeps the
\* first key whose value is the largest.
RECURSIVE MaxKeyFrom(_, _, _)
MaxKeyLastFrom(d, i, best) ==
    IF i > Len(d.keys) THEN d.keys[best]
    ELSE MaxKeyFrom(d, i + 1, IF d.val[i] >= d.val[best] THEN i ELSE best)

MaxKeyFrom(d, i, best) ==
    IF i > Len(d.keys) THEN d.keys[best]
    ELSE MaxKeyFrom(d, i + 1, IF d.val[i] > d.val[best] THEN i ELSE best)

MaxKey(d) == MaxKeyFrom(d, 2, 1)

\* ---------------------------------------------------------------- round
\* Python None in a variable that otherwise holds a Block
NoBlock == Block(None, None, None)

SetMax(S) == CHOOSE x \in S : \A y \in S : y <= x

AllNodes == [i \in 1..NumNodes |-> i]

\* the lists passed as `nodes`: the first k nodes, the empty list included
NodeLists == { [i \in 1..k |-> i] : k \in 0..NumNodes }

ZeroCount == [n \in Nodes |-> 0]

\* phase 1: one proposal per node, in node order
Proposals(ch, nl, fresh) ==
    [i \in 1..Len(nl) |-> propose_block(ch[nl[i]], fresh + i - 1)]

ValidBlocksAbove(c, pb) ==
    LET next_h == current_height(c) + 2
    IN  SelectSeq(pb, LAMBDA b : b.height = next_h)

\* phase 2: valid_blocks of a node whose chain is c
ValidBlocks(c, pb) ==
    LET next_h == current_height(c) + 1
    IN  SelectSeq(pb, LAMBDA b : b.height = next_h)

\* the outcomes random.choice(valid_blocks) can have, as indices into
\* valid_blocks; 0 stands for the branch that makes no choice
Choices(c, pb) ==
    IF ValidBlocks(c, pb) # << >> THEN 1..Len(ValidBlocks(c, pb)) ELSE {0}

\* one iteration of the phase-2 loop, for nl[i], random.choice taking
\* valid_blocks[k]: the chains, and the discard_last_block calls made
SelectNode(ch, nl, pb, i, k) ==
    LET n == nl[i]
        c == ch[n]
        valid_blocks == ValidBlocks(c, pb)
    IN  IF valid_blocks # << >>
        THEN [disc |-> 0,
              chain |-> [ch EXCEPT ![n] = add_block(c, valid_blocks[k])]]
        ELSE LET max_h == SetMax({ current_height(ch[nl[j]]) : j \in 1..Len(nl) })
             IN  IF max_h > current_height(c)
                 THEN [disc |-> 1,
                       chain |-> [ch EXCEPT ![n] = discard_last_block(c)]]
                 ELSE [disc |-> 0, chain |-> ch]

\* the phase-2 loop from position i on: every outcome it can have, with the
\* choices made (picks) and the discard_last_block calls per node (count)
RECURSIVE Phase2(_, _, _, _, _, _)
Phase2(ch, nl, pb, i, cnt, pk) ==
    IF i > Len(nl) THEN { [chain |-> ch, count |-> cnt, picks |-> pk] }
    ELSE UNION { LET s == SelectNode(ch, nl, pb, i, k)
                 IN  Phase2(s.chain, nl, pb, i + 1,
                            [cnt EXCEPT ![nl[i]] = @ + s.disc], Append(pk, k)) :
                 k \in Choices(ch[nl[i]], pb) }

\* phase 3
HeightCount(ch, nl) ==
    CountFrom(EmptyDict, [i \in 1..Len(nl) |-> current_height(ch[nl[i]])], 1)

HashCountAll(ch, nl, mh) ==
    CountFrom(EmptyDict, [i \in 1..Len(nl) |-> Tip(ch[nl[i]]).hash], 1)

HashCount(ch, nl, mh) ==
    LET at == SelectSeq(nl, LAMBDA n : current_height(ch[n]) = mh)
    IN  CountFrom(EmptyDict, [i \in 1..Len(at) |-> Tip(ch[at[i]]).hash], 1)

RECURSIVE ReferenceFrom(_, _, _, _, _)
ReferenceFrom(ch, nl, mh, mhash, i) ==
    IF i > Len(nl) THEN NoBlock
    ELSE IF current_height(ch[nl[i]]) = mh /\ Tip(ch[nl[i]]).hash = mhash
         THEN Tip(ch[nl[i]])
         ELSE ReferenceFrom(ch, nl, mh, mhash, i + 1)

ReferenceBlock(ch, nl, mh, mhash) == ReferenceFrom(ch, nl, mh, mhash, 1)

\* the locals of main.py's round when it reaches line 140, or when it
\* returns early at line 114, 125 or 138
Aggregate(ch, nl) ==
    LET height_count == HeightCount(ch, nl)
    IN  IF height_count.keys = << >>
        THEN [majority_height |-> None, majority_hash |-> None,
              reference_block |-> NoBlock]
        ELSE LET mh == MaxKey(height_count)
                 hash_count == HashCount(ch, nl, mh)
             IN  IF hash_count.keys = << >>
                 THEN [majority_height |-> mh, majority_hash |-> None,
                       reference_block |-> NoBlock]
                 ELSE LET mhash == MaxKey(hash_count)
                      IN  [majority_height |-> mh, majority_hash |-> mhash,
                           reference_block |-> ReferenceBlock(ch, nl, mh, mhash)]

\* phase 4: the adoption construction of both branches
AdoptReference(c, ref) ==
    IF current_height(c) + 1 = ref.height THEN Append(c, ref) ELSE c

AdoptNone(c, ref) == c

AdoptOrphan(c, ref) ==
    IF current_height(c) + 1 = ref.height
    THEN Append(c, Block(ref.height, None, ref.hash))
    ELSE c

AdoptRefParent(c, ref) ==
    IF current_height(c) + 1 = ref.height
    THEN add_block(c, Block(ref.height, ref.parent_hash, ref.hash))
    ELSE c

AdoptUnguarded(c, ref) ==
    Append(c, Block(ref.height, Tip(c).hash, ref.hash))

Adopt(c, ref) ==
    IF current_height(c) + 1 = ref.height
    THEN add_block(c, Block(ref.height, Tip(c).hash, ref.hash))
    ELSE c

\* `while node.current_height() >= majority_height and len(node.chain) > 1`
RECURSIVE DiscardWhile(_, _, _)
DiscardWhile(c, mh, count) ==
    IF current_height(c) >= mh /\ Len(c) > 1
    THEN DiscardWhile(discard_last_block(c), mh, count + 1)
    ELSE [chain |-> c, count |-> count]

\* the body of the phase-4 loop for one node: its new chain and the number
\* of discard_last_block calls made on it
ReconcileNodeNoAdopt(c, mh, mhash, ref) ==
    IF current_height(c) = mh /\ Tip(c).hash # mhash
    THEN [chain |-> discard_last_block(c), count |-> 1]
    ELSE [chain |-> c, count |-> 0]

ReconcileNode(c, mh, mhash, ref) ==
    IF current_height(c) < mh
    THEN LET w == DiscardWhile(c, mh, 0)
         IN  [chain |-> Adopt(w.chain, ref), count |-> w.count]
    ELSE IF current_height(c) = mh
         THEN IF Tip(c).hash # mhash
              THEN [chain |-> Adopt(discard_last_block(c), ref), count |-> 1]
              ELSE [chain |-> c, count |-> 0]
         ELSE [chain |-> c, count |-> 0]

\* the phase-4 loop: each node of nl in turn (a node's turn reads and writes
\* its own chain only; reference_block was taken before the loop)
Reconcile(ch, nl, mh, mhash, ref) ==
    [n \in Nodes |-> IF InSeq(n, nl) THEN ReconcileNode(ch[n], mh, mhash, ref)
                     ELSE [chain |-> ch[n], count |-> 0]]

\* ---------------------------------------------------------------- state
NoOp == [op |-> "none", node |-> 0, block |-> NoBlock, before |-> << >>,
         ret |-> "None"]

FreshNodes == [n \in Nodes |-> NodeInit]

\* nothing has run yet, or the last round's locals are gone
NoRound ==
    /\ pc = "idle"
    /\ engine = "main"
    /\ rnodes = << >>
    /\ proposed_blocks = << >>
    /\ picks = << >>
    /\ afterSelect = chain
    /\ majority_height = None
    /\ majority_hash = None
    /\ reference_block = NoBlock
    /\ rollbacks = ZeroCount
    /\ p2rollbacks = ZeroCount
    /\ startChain = chain
    /\ err = "none"
    /\ round_state = << >>

\* main(): nodes = [Node(node_id=i) for i in range(5)]
Init ==
    /\ chain = FreshNodes
    /\ nextId = 1
    /\ NoRound
    /\ lastOp = NoOp
    /\ rounds = 0
    /\ calls = 0

\* Chains that add_block can build. Node n has built blocks of its own, of
\* hash OwnHash(n, h) at height h; a tip is such a block or the block of hash
\* SharedHash(h), which also other nodes can have as their tip.
SharedHash(h) == h

OwnHash(n, h) == n * MaxInitHeight + h

FirstFreshHash == (NumNodes + 1) * MaxInitHeight + 1

RECURSIVE OwnChain(_, _)
OwnChain(n, h) ==
    IF h = 0 THEN NodeInit
    ELSE LET c == OwnChain(n, h - 1)
         IN  add_block(c, Block(h, Tip(c).hash, OwnHash(n, h)))

InitChains(n) ==
    { OwnChain(n, h) : h \in 0..MaxInitHeight } \cup
    { LET c == OwnChain(n, h - 1)
      IN  add_block(c, Block(h, Tip(c).hash, SharedHash(h))) : h \in 1..MaxInitHeight }

InitAny ==
    /\ chain \in { ch \in [Nodes -> UNION { InitChains(n) : n \in Nodes }] :
                     \A n \in Nodes : ch[n] \in InitChains(n) }
    /\ nextId = FirstFreshHash
    /\ NoRound
    /\ lastOp = NoOp
    /\ rounds = 0
    /\ calls = 0

\* ---------------------------------------------------------------- calls
ClearRound ==
    /\ pc' = "idle"
    /\ engine' = "main"
    /\ rnodes' = << >>
    /\ proposed_blocks' = << >>
    /\ picks' = << >>
    /\ afterSelect' = chain'
    /\ majority_height' = None
    /\ majority_hash' = None
    /\ reference_block' = NoBlock
    /\ rollbacks' = ZeroCount
    /\ p2rollbacks' = ZeroCount
    /\ startChain' = chain'
    /\ round_state' = << >>

TipHashes == { Tip(chain[n]).hash : n \in Nodes }

\* the blocks handed to add_block: Block(height, parent_hash), whose hash is
\* generated
BlockInputs ==
    { Block(h, p, nextId) : h \in 0..(MaxInitHeight + 1),
                            p \in {None} \cup TipHashes }

\* node.add_block(b), called directly. The generated hash is spent once it
\* has entered a chain.
CallAddBlock(n, b) ==
    /\ err = "none"
    /\ chain' = [chain EXCEPT ![n] = add_block(chain[n], b)]
    /\ nextId' = IF chain'[n] # chain[n] THEN nextId + 1 ELSE nextId
    /\ lastOp' = [op |-> "add", node |-> n, block |-> b, before |-> chain[n],
                  ret |-> add_block_return(chain[n], b)]
    /\ calls' = calls + 1
    /\ ClearRound
    /\ UNCHANGED <<err, rounds>>

\* node.discard_last_block(), called directly
CallDiscardLastBlock(n) ==
    /\ err = "none"
    /\ chain' = [chain EXCEPT ![n] = discard_last_block(chain[n])]
    /\ lastOp' = [op |-> "discard", node |-> n, block |-> NoBlock,
                  before |-> chain[n], ret |-> "None"]
    /\ calls' = calls + 1
    /\ ClearRound
    /\ UNCHANGED <<nextId, err, rounds>>

\* ---------------------------------------------------------------- rounds
\* what phases 1 and 2 leave, the same code in both files
RoundStart(nl, eng, pb, s) ==
    /\ engine' = eng
    /\ rnodes' = nl
    /\ proposed_blocks' = pb
    /\ picks' = s.picks
    /\ afterSelect' = s.chain
    /\ p2rollbacks' = s.count
    /\ startChain' = chain
    /\ nextId' = nextId + Len(nl)
    /\ rounds' = rounds + 1
    /\ lastOp' = NoOp
    /\ pc' = "done"
    /\ UNCHANGED calls

\* random_consensus_round(nodes) of main.py, with nodes = nl
MainRound(nl) ==
    /\ err = "none"
    /\ \E pb \in { Proposals(chain, nl, nextId) } :
       \E s \in Phase2(chain, nl, pb, 1, ZeroCount, << >>) :
       \E a \in { Aggregate(s.chain, nl) } :
           /\ RoundStart(nl, "main", pb, s)
           /\ majority_height' = a.majority_height
           /\ majority_hash' = a.majority_hash
           /\ reference_block' = a.reference_block
           /\ IF a.reference_block = NoBlock
              THEN /\ chain' = s.chain
                   /\ rollbacks' = s.count
              ELSE \E r \in { Reconcile(s.chain, nl, a.majority_height,
                                        a.majority_hash, a.reference_block) } :
                       /\ chain' = [n \in Nodes |-> r[n].chain]
                       /\ rollbacks' = [n \in Nodes |-> s.count[n] + r[n].count]
           /\ round_state' = << >>
           /\ UNCHANGED err

\* Node(i) for i in range(NODES): the node_id of node n
node_id(n) == n - 1

\* hash[:6]. A hash is a string of more than six characters, and which
\* hashes begin with the same six is decided by uuid4: the program does not
\* determine it. A six-character string is named after the least hash of T
\* that begins with it; the name is no hash and is not None.
PrefixName(r) == 0 - (r + 2)

\* every way the hashes of T can begin: for each hash of T the string it
\* begins with, all different (what uuid4 gives but for a chance of 16^-6 a
\* pair), or some of them equal, in every grouping
HashPrefixes(T) ==
    { [h \in T |-> PrefixName(g[h])] :
        g \in { f \in [T -> T] : \A h \in T : f[h] <= h /\ f[f[h]] = f[h] } }

\* the hashes the demo's round takes the first six characters of
TipsOf(ch, nl) == { Tip(ch[nl[i]]).hash : i \in 1..Len(nl) }

\* the round_state list of the demo's round, hash[:6] being pre[hash]
RoundStateFullHash(ch, nl, pre) ==
    [i \in 1..Len(nl) |-> [node_id |-> node_id(nl[i]),
                           height |-> current_height(ch[nl[i]]),
                           hash |-> Tip(ch[nl[i]]).hash]]

RoundState(ch, nl, pre) ==
    [i \in 1..Len(nl) |-> [node_id |-> node_id(nl[i]),
                           height |-> current_height(ch[nl[i]]),
                           hash |-> pre[Tip(ch[nl[i]]).hash]]]

\* phases 1 and 2 of the demo's round, from the demo's own text
\* proposed_blocks = [node.propose_block() for node in nodes]
DemoProposals(ch, nl, fresh) ==
    [i \in 1..Len(nl) |-> propose_block(ch[nl[i]], fresh + i - 1)]

DemoValidOnTip(c, pb) ==
    LET nxt == current_height(c) + 1
    IN  SelectSeq(pb, LAMBDA b : b.height = nxt /\ b.parent_hash = Tip(c).hash)

\* valid = [b for b in proposed_blocks if b.height == nxt]
DemoValid(c, pb) ==
    LET nxt == current_height(c) + 1
    IN  SelectSeq(pb, LAMBDA b : b.height = nxt)

\* the indices random.choice(valid) can return; 0 when valid is empty
DemoChoices(c, pb) ==
    IF DemoValid(c, pb) # << >> THEN 1..Len(DemoValid(c, pb)) ELSE {0}

\* one iteration of the demo's loop, for nl[i], random.choice taking valid[k]
DemoSelectNode(ch, nl, pb, i, k) ==
    LET node == nl[i]
        valid == DemoValid(ch[node], pb)
    IN  IF valid # << >>
        THEN [disc |-> 0,
              chain |-> [ch EXCEPT ![node] = add_block(ch[node], valid[k])]]
        ELSE LET max_h == SetMax({ current_height(ch[nl[j]]) : j \in 1..Len(nl) })
             IN  IF max_h > current_height(ch[node])
                 THEN [disc |-> 1,
                       chain |-> [ch EXCEPT ![node] = discard_last_block(ch[node])]]
                 ELSE [disc |-> 0, chain |-> ch]

\* the demo's loop from position i on: every outcome it can have
RECURSIVE DemoPhase2(_, _, _, _, _, _)
DemoPhase2(ch, nl, pb, i, cnt, pk) ==
    IF i > Len(nl) THEN { [chain |-> ch, count |-> cnt, picks |-> pk] }
    ELSE UNION { LET s == DemoSelectNode(ch, nl, pb, i, k)
                 IN  DemoPhase2(s.chain, nl, pb, i + 1,
                                [cnt EXCEPT ![nl[i]] = @ + s.disc], Append(pk, k)) :
                 k \in DemoChoices(ch[nl[i]], pb) }

\* random_consensus_round(nodes) of demo/simulate_consensus.py: max() of the
\* empty height_count raises ValueError, and nothing is returned
DemoRound(nl) ==
    /\ err = "none"
    /\ \E pb \in { DemoProposals(chain, nl, nextId) } :
       \E s \in DemoPhase2(chain, nl, pb, 1, ZeroCount, << >>) :
       \E height_count \in { HeightCount(s.chain, nl) } :
           /\ RoundStart(nl, "demo", pb, s)
           /\ chain' = s.chain
           /\ rollbacks' = s.count
           /\ IF height_count.keys = << >>
              THEN /\ err' = "ValueError"
                   /\ majority_height' = None
                   /\ round_state' = << >>
              ELSE /\ err' = "none"
                   /\ majority_height' = MaxKey(height_count)
                   /\ \E pre \in HashPrefixes(TipsOf(s.chain, nl)) :
                          round_state' = RoundState(s.chain, nl, pre)
           /\ majority_hash' = None
           /\ reference_block' = NoBlock

\* ---------------------------------------------------------------- specs
\* main(): rounds of main.py on the full node list, from fresh nodes
RunMain ==
    /\ rounds < MaxRounds
    /\ MainRound(AllNodes)

SpecMain == Init /\ [][RunMain]_vars

\* a step of main()'s `for r in range(ROUNDS)`: one more round has run.
\* Every step of RunMain is such a step, and one is possible exactly when
\* RunMain is.
RoundRuns ==
    /\ rounds < MaxRounds
    /\ rounds' = rounds + 1

\* main()'s loop calls the round again and again: while a round is left to
\* run, one is run
SpecMainFair == Init /\ [][RunMain]_vars /\ WF_rounds(RoundRuns)

\* fresh nodes under any sequence of add_block, discard_last_block and
\* rounds of main.py, MaxCalls operations long
AddBlockCall ==
    /\ calls + rounds < MaxCalls
    /\ \E n \in Nodes : \E b \in BlockInputs : CallAddBlock(n, b)

DiscardCall ==
    /\ calls + rounds < MaxCalls
    /\ \E n \in Nodes : CallDiscardLastBlock(n)

RoundCall ==
    /\ calls + rounds < MaxCalls
    /\ MainRound(AllNodes)

NextNode ==
    \/ AddBlockCall
    \/ DiscardCall
    \/ RoundCall

SpecNode == Init /\ [][NextNode]_vars

\* one operation, on nodes in any state: a direct call, or a round of either
\* file on any list
AnyAddBlock ==
    /\ calls = 0 /\ rounds = 0
    /\ \E n \in Nodes : \E b \in BlockInputs : CallAddBlock(n, b)

AnyDiscard ==
    /\ calls = 0 /\ rounds = 0
    /\ \E n \in Nodes : CallDiscardLastBlock(n)

AnyMainRound ==
    /\ calls = 0 /\ rounds = 0
    /\ \E nl \in NodeLists : MainRound(nl)

AnyDemoRound ==
    /\ calls = 0 /\ rounds = 0
    /\ \E nl \in NodeLists : DemoRound(nl)

Next ==
    \/ AnyAddBlock
    \/ AnyDiscard
    \/ AnyMainRound
    \/ AnyDemoRound

Spec == InitAny /\ [][Next]_vars

\* ---------------------------------------------------------------- claims
Height(n) == current_height(chain[n])

TipHash(n) == Tip(chain[n]).hash

MainDone == pc = "done" /\ engine = "main"

\* the nodes of the round's list all began the round at one height and tip
SameStart ==
    \A i, j \in 1..Len(rnodes) :
        /\ current_height(startChain[rnodes[i]]) = current_height(startChain[rnodes[j]])
        /\ Tip(startChain[rnodes[i]]).hash = Tip(startChain[rnodes[j]]).hash

\* C1: a round of main.py on a non-empty list of nodes that all begin at
\* the same height h and the same tip hash ends, whatever random.choice
\* returns, with every node of the list at height h + 1 and all of them on
\* one tip hash.
C1_MajorityConvergence ==
    (MainDone /\ rnodes # << >> /\ SameStart) =>
        \A i, j \in 1..Len(rnodes) :
            /\ Height(rnodes[i]) = current_height(startChain[rnodes[i]]) + 1
            /\ TipHash(rnodes[i]) = TipHash(rnodes[j])

\* all nodes began above genesis on one tip, chose different proposals, and
\* one of them was rolled back and adopted the majority block
C1_Witness ==
    /\ MainDone /\ rnodes = AllNodes /\ SameStart
    /\ current_height(startChain[1]) >= 1
    /\ \E n \in Nodes : rollbacks[n] = 1
    /\ \A n \in Nodes : TipHash(n) = reference_block.hash

\* C2: from fresh nodes, after every round main() runs, all nodes have the
\* same height and the same tip hash.
C2_Agreement ==
    \A n, m \in Nodes : Height(n) = Height(m) /\ TipHash(n) = TipHash(m)

\* a second or later round in which a node on a minority tip was reconciled
C2_Witness ==
    /\ MainDone /\ rounds >= 2
    /\ \E n \in Nodes : rollbacks[n] = 1 /\ Tip(afterSelect[n]).hash # TipHash(n)
    /\ \A n \in Nodes : Height(n) = rounds

AppendGuard(c, b) ==
    b.height = current_height(c) + 1 /\ b.parent_hash = Tip(c).hash

\* C3: add_block(b) makes b the new last block exactly when b.height is the
\* node's height plus 1 and b.parent_hash is the node's tip hash; then the
\* height has grown by 1 and the tip hash is b.hash; otherwise the chain is
\* as it was.
C3_AppendGuard ==
    lastOp.op = "add" =>
        LET c == lastOp.before
            b == lastOp.block
            now == chain[lastOp.node]
        IN  /\ (now = Append(c, b)) <=> AppendGuard(c, b)
            /\ AppendGuard(c, b) =>
                   /\ current_height(now) = current_height(c) + 1
                   /\ Tip(now).hash = b.hash
            /\ ~AppendGuard(c, b) => now = c

\* an append accepted on a chain that already had blocks above genesis
C3_Witness ==
    /\ lastOp.op = "add"
    /\ Len(lastOp.before) >= 2
    /\ chain[lastOp.node] = Append(lastOp.before, lastOp.block)

\* C4 as claimed: add_block returns True when it appended and False when it
\* rejected the block.
C4_ReturnsWhetherAppended ==
    lastOp.op = "add" =>
        /\ lastOp.ret = "True" <=> chain[lastOp.node] # lastOp.before
        /\ lastOp.ret = "False" <=> chain[lastOp.node] = lastOp.before

\* C4, amended: add_block returns None whether it appended the block or
\* rejected it; what tells the two apart is the chain, which is one block
\* longer exactly when the append guard held.
C4_ReturnsNone ==
    lastOp.op = "add" =>
        /\ lastOp.ret = "None"
        /\ Len(chain[lastOp.node]) = Len(lastOp.before) + 1
               <=> AppendGuard(lastOp.before, lastOp.block)
        /\ Len(chain[lastOp.node]) = Len(lastOp.before)
               <=> ~AppendGuard(lastOp.before, lastOp.block)

\* a rejected append of a block of the right height and the wrong parent
C4_Witness ==
    /\ lastOp.op = "add"
    /\ lastOp.ret = "None"
    /\ lastOp.block.height = current_height(lastOp.before) + 1
    /\ lastOp.block.parent_hash # Tip(lastOp.before).hash
    /\ chain[lastOp.node] = lastOp.before

\* C5: discard_last_block removes exactly the last block, lowering the
\* height by 1, when the chain has more than one block, and changes nothing
\* when the chain is genesis alone; however many calls are made, no chain
\* gets shorter than 1.
C5_RollbackGuard ==
    /\ \A n \in Nodes : Len(chain[n]) >= 1
    /\ lastOp.op = "discard" =>
           LET c == lastOp.before
               now == chain[lastOp.node]
           IN  IF Len(c) > 1
               THEN /\ now = SubSeq(c, 1, Len(c) - 1)
                    /\ current_height(now) = current_height(c) - 1
               ELSE now = c

\* a discard that removed a block, and left genesis alone
C5_Witness ==
    /\ lastOp.op = "discard"
    /\ Len(lastOp.before) = 2
    /\ chain[lastOp.node] = NodeInit
    /\ calls >= 2

Linked(c) ==
    \A i \in 2..Len(c) :
        /\ c[i].parent_hash = c[i - 1].hash
        /\ c[i].height = c[i - 1].height + 1
        /\ c[i].height = i - 1

\* C6: in every node's chain each block's parent_hash is the hash of the
\* block before it and its height is that block's height plus 1, so that the
\* block at position i (from 0) has height i; rounds in which blocks are
\* adopted keep it so.
C6_ChainLinkage == \A n \in Nodes : Linked(chain[n])

\* a node adopted the reference block over a parent that is not the
\* reference block's parent
C6_Witness ==
    /\ MainDone
    /\ \E n \in Nodes :
        /\ rollbacks[n] = 1
        /\ Len(chain[n]) >= 3
        /\ Tip(chain[n]).hash = reference_block.hash
        /\ Tip(chain[n]).parent_hash # reference_block.parent_hash

\* C7: a fresh node has height 0 and the fixed genesis hash as its tip, and
\* under any sequence of add_block, discard_last_block and rounds every
\* chain stays non-empty with the genesis block (height 0, the fixed hash,
\* no parent) first.
C7_Genesis ==
    /\ \A n \in Nodes :
        /\ Len(chain[n]) >= 1
        /\ chain[n][1] = Block(0, None, FIXED_GENESIS_HASH)
    /\ (calls = 0 /\ rounds = 0) =>
           \A n \in Nodes : Height(n) = 0 /\ TipHash(n) = FIXED_GENESIS_HASH

\* after a round, discard_last_block was called on a node that had genesis
\* only
C7_Witness ==
    /\ rounds >= 1
    /\ lastOp.op = "discard"
    /\ lastOp.before = NodeInit
    /\ chain[lastOp.node] = NodeInit

SetMin(S) == CHOOSE x \in S : \A y \in S : x <= y

\* positions in the round's list, and what the node there has after phase 2
Positions == 1..Len(rnodes)

SelHeight(i) == current_height(afterSelect[rnodes[i]])

SelHash(i) == Tip(afterSelect[rnodes[i]]).hash

\* how many nodes of the list are at the height of the node at position i
HeightVotes(i) == Cardinality({ j \in Positions : SelHeight(j) = SelHeight(i) })

AtMajority == { i \in Positions : SelHeight(i) = majority_height }

\* how many nodes at the majority height have the tip hash of the one at i
HashVotes(i) == Cardinality({ j \in AtMajority : SelHash(j) = SelHash(i) })

\* C8: the majority height is the height of the first node, in list order,
\* whose height after phase 2 is shared by the largest number of nodes; the
\* majority hash is the tip hash of the first node, among those at the
\* majority height, whose tip hash is shared by the largest number of them;
\* the reference block is the tip of the first node at the majority height
\* with the majority hash.
C8_TieBreak ==
    (MainDone /\ rnodes # << >>) =>
        LET bestH == SetMax({ HeightVotes(i) : i \in Positions })
            firstH == SetMin({ i \in Positions : HeightVotes(i) = bestH })
            bestT == SetMax({ HashVotes(i) : i \in AtMajority })
            firstT == SetMin({ i \in AtMajority : HashVotes(i) = bestT })
            firstR == SetMin({ i \in AtMajority : SelHash(i) = majority_hash })
        IN  /\ majority_height = SelHeight(firstH)
            /\ majority_hash = SelHash(firstT)
            /\ reference_block = Tip(afterSelect[rnodes[firstR]])

\* every height is held by one node: the tie goes to the first node's height
C8_Witness ==
    /\ MainDone /\ rnodes = AllNodes
    /\ \A i, j \in Positions : i # j => SelHeight(i) # SelHeight(j)
    /\ majority_height = SelHeight(1)
    /\ majority_height < SelHeight(NumNodes)

\* C9: in a round of main.py discard_last_block is called on a node at most
\* once in phase 2 and at most once in phase 4, and the node's height at the
\* end is at least its height at the start minus the number of those calls.
C9_RollbackBound ==
    MainDone =>
        \A n \in Nodes :
            /\ p2rollbacks[n] <= 1
            /\ rollbacks[n] - p2rollbacks[n] <= 1
            /\ rollbacks[n] <= 2
            /\ Height(n) >= current_height(startChain[n]) - rollbacks[n]

\* a node that did not grow in phase 2 was rolled back in phase 4
C9_Witness ==
    /\ MainDone
    /\ \E n \in Nodes :
        /\ rollbacks[n] = 1
        /\ afterSelect[n] = startChain[n]
        /\ current_height(startChain[n]) >= 2

\* C10: a round on the empty list raises nothing and changes nothing, in
\* main.py and in the demo.
C10_EmptyListTotal ==
    (pc = "done" /\ rnodes = << >>) => (err = "none" /\ chain = startChain)

\* discard_last_block calls phase 4 made on node n
Phase4Rollbacks(n) == rollbacks[n] - p2rollbacks[n]

\* C11: in a round of main.py on a non-empty list, every node whose height
\* after phase 2 is the majority height or one below it ends the round at
\* the majority height with the majority hash as its tip hash; a node at the
\* majority height on another tip is rolled back exactly once and then
\* adopts, a node one below adopts without being rolled back.
C11_ReconcileOutcome ==
    (MainDone /\ rnodes # << >>) =>
        \A i \in Positions :
            /\ (SelHeight(i) = majority_height \/ SelHeight(i) = majority_height - 1) =>
                   /\ Height(rnodes[i]) = majority_height
                   /\ TipHash(rnodes[i]) = majority_hash
            /\ (SelHeight(i) = majority_height /\ SelHash(i) # majority_hash) =>
                   Phase4Rollbacks(rnodes[i]) = 1
            /\ SelHeight(i) = majority_height - 1 =>
                   Phase4Rollbacks(rnodes[i]) = 0

\* one node at the majority height on a minority tip and one node one below
\* the majority height, both on the majority hash at the end
C11_Witness ==
    /\ MainDone
    /\ \E i, j \in Positions :
        /\ SelHeight(i) = majority_height /\ SelHash(i) # majority_hash
        /\ Phase4Rollbacks(rnodes[i]) = 1
        /\ SelHeight(j) = majority_height - 1
        /\ Phase4Rollbacks(rnodes[j]) = 0
        /\ TipHash(rnodes[i]) = majority_hash
        /\ TipHash(rnodes[j]) = majority_hash
        /\ Height(rnodes[j]) = majority_height

\* C12: phase 4 of main.py leaves the chain of a node as phase 2 left it when
\* the node then (a) has the majority height and the majority hash, (b) is
\* above the majority height, or (c) is two or more below it; and it never
\* calls discard_last_block on a node that is below the majority height.
C12_ReconcileFrame ==
    (MainDone /\ rnodes # << >>) =>
        \A i \in Positions :
            /\ (SelHeight(i) = majority_height /\ SelHash(i) = majority_hash) =>
                   chain[rnodes[i]] = afterSelect[rnodes[i]]
            /\ SelHeight(i) > majority_height =>
                   chain[rnodes[i]] = afterSelect[rnodes[i]]
            /\ SelHeight(i) <= majority_height - 2 =>
                   chain[rnodes[i]] = afterSelect[rnodes[i]]
            /\ SelHeight(i) < majority_height =>
                   Phase4Rollbacks(rnodes[i]) = 0

\* one round with a node of each kind: the reference node, a node above the
\* majority height and a node two or more below it, none of them touched
C12_Witness ==
    /\ MainDone
    /\ \E i, j, k \in Positions :
        /\ SelHeight(i) = majority_height /\ SelHash(i) = majority_hash
        /\ SelHeight(j) > majority_height
        /\ SelHeight(k) <= majority_height - 2
        /\ \A m \in {i, j, k} : chain[rnodes[m]] = afterSelect[rnodes[m]]
        /\ Height(rnodes[k]) < majority_height

\* the chain of node n when phase 4 tests `current_height() + 1 ==
\* reference_block.height`: what phase 2 left, less the blocks phase 4
\* discarded
Phase4Pre(n) ==
    SubSeq(afterSelect[n], 1, Len(afterSelect[n]) - Phase4Rollbacks(n))

\* phase 4 reaches the adoption of one of its two branches for the node at
\* position i, and the height test there passes
AdoptionAttempted(i) ==
    /\ reference_block # NoBlock
    /\ \/ SelHeight(i) < majority_height
       \/ SelHeight(i) = majority_height /\ SelHash(i) # majority_hash
    /\ current_height(Phase4Pre(rnodes[i])) + 1 = reference_block.height

\* C13: whenever phase 4 attempts an adoption for a node, the node's chain
\* ends the round one block longer than it was at that moment, and the new
\* last block has the height and hash of the reference block and the hash of
\* the node's own tip at that moment (after any rollback) as parent_hash.
C13_AdoptedBlock ==
    MainDone =>
        \A i \in Positions :
            AdoptionAttempted(i) =>
                LET pre == Phase4Pre(rnodes[i])
                IN  chain[rnodes[i]] =
                        Append(pre, Block(reference_block.height, Tip(pre).hash,
                                          reference_block.hash))

\* an adoption after a rollback, and one without, over tips that are not the
\* reference block's parent
C13_Witness ==
    /\ MainDone
    /\ \E i, j \in Positions :
        /\ AdoptionAttempted(i) /\ Phase4Rollbacks(rnodes[i]) = 1
        /\ AdoptionAttempted(j) /\ Phase4Rollbacks(rnodes[j]) = 0
        /\ \A m \in {i, j} :
            /\ Tip(chain[rnodes[m]]).hash = reference_block.hash
            /\ Tip(chain[rnodes[m]]).parent_hash # reference_block.parent_hash
            /\ Len(chain[rnodes[m]]) = Len(Phase4Pre(rnodes[m])) + 1

\* valid_blocks at the turn of the node at position i: until then the round
\* has not touched that node's chain, which is as the round found it
TurnValid(i) == ValidBlocks(startChain[rnodes[i]], proposed_blocks)

\* the block random.choice returned at that turn
Chosen(i) == TurnValid(i)[picks[i]]

\* C14: phase 2 (of main.py and of the demo) filters the proposals by height
\* only: the block a node picks has the node's height plus 1; when its
\* parent_hash is not the node's tip hash phase 2 leaves the node's chain as
\* it was, without growth and without rollback, and when it is the node's
\* tip hash the chain grows by exactly that block.
C14_WastedTurn ==
    pc = "done" =>
        \A i \in Positions :
            picks[i] # 0 =>
                LET c == startChain[rnodes[i]]
                    b == Chosen(i)
                IN  /\ b.height = current_height(c) + 1
                    /\ b.parent_hash # Tip(c).hash =>
                           /\ afterSelect[rnodes[i]] = c
                           /\ p2rollbacks[rnodes[i]] = 0
                    /\ b.parent_hash = Tip(c).hash =>
                           afterSelect[rnodes[i]] = Append(c, b)

\* a round of the demo in which one node picked a block of another parent
\* and kept its chain, and another picked a block on its tip and grew
C14_Witness ==
    /\ pc = "done" /\ engine = "demo"
    /\ \E i, j \in Positions :
        /\ picks[i] # 0 /\ picks[j] # 0
        /\ Chosen(i).height = current_height(startChain[rnodes[i]]) + 1
        /\ Chosen(i).parent_hash # Tip(startChain[rnodes[i]]).hash
        /\ chain[rnodes[i]] = startChain[rnodes[i]]
        /\ Chosen(j).parent_hash = Tip(startChain[rnodes[j]]).hash
        /\ chain[rnodes[j]] = Append(startChain[rnodes[j]], Chosen(j))

\* C15: in a round (of main.py or of the demo) on distinct nodes in any
\* state, valid_blocks at a node's turn contains the node's own proposal of
\* phase 1, so that a choice is made at every turn and the branch for an
\* empty valid_blocks, with its discard_last_block, is never executed.
C15_NoSelfCorrection ==
    pc = "done" =>
        \A i \in Positions :
            /\ InSeq(proposed_blocks[i], TurnValid(i))
            /\ picks[i] # 0
            /\ p2rollbacks[rnodes[i]] = 0

\* a node below the greatest height of the list whose valid_blocks held its
\* own proposal and nothing else
C15_Witness ==
    /\ pc = "done"
    /\ \E i, j \in Positions :
        /\ current_height(startChain[rnodes[i]]) < current_height(startChain[rnodes[j]])
        /\ TurnValid(i) = << proposed_blocks[i] >>
        /\ picks[i] = 1
        /\ p2rollbacks[rnodes[i]] = 0

\* C16: from fresh nodes, after every round main() runs all chains are equal
\* block for block (height, hash, parent_hash); the block a node adopted has
\* the parent_hash of the reference block it copies; and no two blocks held
\* anywhere have the same hash and different parent_hash.
C16_IdenticalChains ==
    /\ \A n, m \in Nodes : chain[n] = chain[m]
    /\ MainDone =>
           \A n \in Nodes :
               (Phase4Rollbacks(n) = 1 \/ Len(chain[n]) > Len(afterSelect[n])) =>
                   Tip(chain[n]) = reference_block
    /\ \A n, m \in Nodes :
           \A i \in 1..Len(chain[n]) : \A j \in 1..Len(chain[m]) :
               chain[n][i].hash = chain[m][j].hash =>
                   chain[n][i].parent_hash = chain[m][j].parent_hash

\* the last of main()'s rounds, in which a node that had chosen a minority
\* block adopted the reference block, over the blocks of the earlier rounds
C16_Witness ==
    /\ MainDone /\ rounds = MaxRounds
    /\ \E n \in Nodes :
        /\ Phase4Rollbacks(n) = 1
        /\ Tip(afterSelect[n]).hash # reference_block.hash
        /\ Tip(chain[n]) = reference_block
    /\ \A n \in Nodes : Len(chain[n]) = MaxRounds + 1 /\ chain[n] = chain[1]

\* C17: from fresh nodes every round main() runs raises every node's height
\* by exactly 1, whatever random.choice returns, so that after k rounds every
\* node has height k; and as main() keeps running rounds every height up to
\* the number of rounds is reached by all nodes.
C17_Progress ==
    /\ [][\A n \in Nodes : Height(n)' = Height(n) + 1]_vars
    /\ [](\A n \in Nodes : Height(n) = rounds)
    /\ \A k \in 0..MaxRounds : <>(\A n \in Nodes : Height(n) = k)

\* the end of main(): every node at the height of the number of rounds run,
\* after a last round in which the nodes did not all choose the same block
C17_Witness ==
    /\ MainDone /\ rounds = MaxRounds
    /\ \A n \in Nodes :
        /\ current_height(startChain[n]) = MaxRounds - 1
        /\ Height(n) = MaxRounds
    /\ \E i, j \in Positions : Chosen(i) # Chosen(j)

StartHeight(n) == current_height(startChain[n])

\* C18: after a round of main.py on a non-empty list of nodes with linked
\* chains in any state, every node's height is at least its height at the
\* start of the round and at most that height plus 2.
C18_HeightsNeverDecrease ==
    (MainDone /\ rnodes # << >>) =>
        \A n \in Nodes :
            /\ Height(n) >= StartHeight(n)
            /\ Height(n) <= StartHeight(n) + 2

\* one node grew by 2 (a block in phase 2, the reference block in phase 4);
\* another, whose turn was wasted, was rolled back and is at its old height
C18_Witness ==
    /\ MainDone
    /\ \E n, m \in Nodes :
        /\ Height(n) = StartHeight(n) + 2
        /\ afterSelect[m] = startChain[m]
        /\ Phase4Rollbacks(m) = 1
        /\ Height(m) = StartHeight(m)

\* C19: in a round of main.py on a non-empty list, phase 3 finds a majority
\* height that a node of the list has, a majority hash that is the tip hash
\* of a node at that height, and a reference block of that height and hash:
\* none of the returns before phase 4 is taken.
C19_ReferenceExists ==
    (MainDone /\ rnodes # << >>) =>
        /\ \E i \in Positions : SelHeight(i) = majority_height
        /\ \E i \in Positions :
               /\ SelHeight(i) = majority_height
               /\ SelHash(i) = majority_hash
               /\ reference_block = Tip(afterSelect[rnodes[i]])
        /\ reference_block # NoBlock
        /\ reference_block.height = majority_height
        /\ reference_block.hash = majority_hash

\* the tip hashes at the majority height tie and a node is off that height:
\* the reference block is the tip of the first node at the majority height
C19_Witness ==
    /\ MainDone /\ reference_block # NoBlock
    /\ \E i, j, k \in Positions :
        /\ i < j
        /\ SelHeight(i) = majority_height /\ SelHeight(j) = majority_height
        /\ SelHash(i) # SelHash(j)
        /\ SelHeight(k) > majority_height
        /\ reference_block = Tip(afterSelect[rnodes[i]])

\* phase 2 of main.py from position i on, random.choice returning at each
\* turn the block of the index given in pk
RECURSIVE SelectWith(_, _, _, _, _)
SelectWith(ch, nl, pb, pk, i) ==
    IF i > Len(nl) THEN ch
    ELSE SelectWith(SelectNode(ch, nl, pb, i, pk[i]).chain, nl, pb, pk, i + 1)

\* main.py's phase 1 on the chains the round that ran began with, uuid4
\* giving the hashes it gave in that round
CoreProposals == Proposals(startChain, rnodes, nextId - Len(rnodes))

\* what main.py has at the end of its phase 2, and at its end, when it is
\* run on those chains with its own proposals and the picks of the round
\* that ran
CorePhase2 == SelectWith(startChain, rnodes, CoreProposals, picks, 1)

CoreEnd ==
    LET a == Aggregate(CorePhase2, rnodes)
        r == Reconcile(CorePhase2, rnodes, a.majority_height, a.majority_hash,
                       a.reference_block)
    IN  IF a.reference_block = NoBlock THEN CorePhase2
        ELSE [n \in Nodes |-> r[n].chain]

\* the demo's round ended as main.py's phase 2 does, and returned the
\* records of the nodes in list order
DemoAsCorePhase2 ==
    /\ err = "none"
    /\ proposed_blocks = CoreProposals
    /\ chain = CorePhase2
    /\ Len(round_state) = Len(rnodes)
    /\ \A i \in Positions :
           /\ round_state[i].node_id = node_id(rnodes[i])
           /\ round_state[i].height = Height(rnodes[i])
    /\ \E pre \in HashPrefixes(TipsOf(chain, rnodes)) :
           \A i \in Positions : round_state[i].hash = pre[TipHash(rnodes[i])]

\* main.py's round ended with the phase-4 reconcile of that same state
CoreAsReplayed ==
    /\ err = "none"
    /\ proposed_blocks = CoreProposals
    /\ afterSelect = CorePhase2
    /\ chain = CoreEnd

\* C20: run on the same chains with the same proposal hashes and the same
\* picks, a round of the demo leaves every node as main.py's round has it at
\* the end of its phase 2 and differs from main.py's round by the phase-4
\* reconcile only: it raises nothing, as main.py's round raises nothing, and
\* it returns, for the nodes in list order, their node_id, height and the
\* first six characters of their tip hash.
C20_DemoIsCoreWithoutReconcile ==
    pc = "done" =>
        /\ engine = "demo" => DemoAsCorePhase2
        /\ engine = "main" => CoreAsReplayed

\* the same on the lists that have a node: there the demo's round and
\* main.py's phase 2 agree for every pick
C20_OnNonEmptyLists ==
    (pc = "done" /\ rnodes # << >>) =>
        /\ engine = "demo" => DemoAsCorePhase2
        /\ engine = "main" => CoreAsReplayed

\* a round of the demo that ends where main.py would go on to reconcile,
\* its nodes on three different tips, two of which begin with the same six
\* characters and the third with others
C20_Witness ==
    /\ pc = "done" /\ engine = "demo" /\ rnodes = AllNodes
    /\ chain # startChain
    /\ chain # CoreEnd
    /\ \E i, j, k \in Positions :
        /\ TipHash(rnodes[i]) # TipHash(rnodes[j])
        /\ round_state[i].hash = round_state[j].hash
        /\ round_state[k].hash # round_state[i].hash
        /\ round_state[j].node_id = j - 1

====
